---- MODULE Spec2Model ----
(***************************************************************************)
(* Model of advanced-vector/vector.h: RawMemory<T> (a block of raw slots)  *)
(* and Vector<T> (a block plus the count of constructed elements).         *)
(*                                                                         *)
(* The heap is a set of blocks; every slot of a block is raw, live         *)
(* (constructed), moved (constructed, moved-from) or freed (handed back to *)
(* the allocator).  Two Vector objects exist so that copy, move and swap   *)
(* can be exercised, and two RawMemory objects outside any Vector for the  *)
(* operations of RawMemory itself.  Every call records its events          *)
(* (allocation, release, construction, assignment, destruction, swap) in   *)
(* program order.  An element operation that may throw is numbered in      *)
(* the order the code executes it; the input f of an operation names the   *)
(* one that throws (0: none).                                              *)
(*                                                                         *)
(* The element type T is one of two kinds, fixed in Init:                  *)
(*   nothrowMove = TRUE   move construction/assignment is noexcept and     *)
(*                        leaves the source moved-from; copies may throw;  *)
(*   nothrowMove = FALSE  T is copyable without noexcept move: every move  *)
(*                        is a copy and may throw.                         *)
(* Indexes are 0-based as in the code; a block's slots are a sequence, so  *)
(* slot i is slots[i + 1].  Allocation failure (bad_alloc) is not          *)
(* modelled.                                                               *)
(***************************************************************************)
EXTENDS Integers, Sequences, FiniteSets, TLC

\* Bounds of the model.
MaxCap == 4        \* Spec: largest capacity of a block
MaxSize == 3       \* Spec: largest size of the Vector
PairMaxCap == 2    \* SpecPair: largest capacity of a block
PairMaxSize == 2   \* SpecPair: largest size of a Vector
MaxPush == 6       \* SpecPush: number of PushBack calls
NumBlocks == 3     \* addresses the allocator can hand out
SizeBits == 8      \* width of size_t in the model

\* Program constants.
Null == 0          \* nullptr
Default == 0       \* a value-initialised element

Vecs == {1, 2}
Values == {1, 2}      \* Spec, SpecPush: the element values passed to the operations
Blocks == 1..NumBlocks
Mems == {1, 2}        \* SpecRaw: the RawMemory objects used on their own

VARIABLES
    vec,          \* vec[v]: the Vector object v: alive, data_.buffer_, data_.capacity_, size_
    mem,          \* mem[m]: the RawMemory object m outside any Vector: alive, buffer_, capacity_
    heap,         \* heap[b]: block b: allocated?, its slots
    nothrowMove,  \* std::is_nothrow_move_constructible_v<T>
    last,         \* the operation that ran last, its arguments and its outcome
    halted,       \* the execution left defined behaviour (or aborted) and is followed no further
    pushes,       \* SpecPush: the values of the PushBack calls completed, in order
    relocs        \* SpecPush: elements relocated by those calls

vars == <<vec, mem, heap, nothrowMove, last, halted, pushes, relocs>>

----------------------------------------------------------------------------
\* Slots

RawSlot == [s |-> "raw", x |-> 0]
FreedSlot == [s |-> "freed", x |-> 0]
MovedSlot == [s |-> "moved", x |-> 0]
Live(x) == [s |-> "live", x |-> x]
Constructed(sl) == sl.s \in {"live", "moved"}

Max(a, b) == IF a >= b THEN a ELSE b
Min(a, b) == IF a <= b THEN a ELSE b

----------------------------------------------------------------------------
\* RawMemory<T>

FreeBlock == [alloc |-> FALSE, slots |-> <<>>]

\* The address operator new returns: the lowest one not in use.
Allocate(h, n) ==
    IF n # 0
      THEN CHOOSE b \in Blocks : ~h[b].alloc /\ \A c \in Blocks : c < b => h[c].alloc
      ELSE Null

\* The heap after RawMemory(capacity): n raw slots at Allocate(h, n).
RawMemoryCreate(h, n) ==
    IF n # 0
      THEN [h EXCEPT ![Allocate(h, n)] = [alloc |-> TRUE, slots |-> [k \in 1..n |-> RawSlot]]]
      ELSE h

Slot(h, b, i) == h[b].slots[i + 1]
SetSlot(h, b, i, sl) == [h EXCEPT ![b].slots[i + 1] = sl]

\* An operation's running state: the heap, the number of throwing-capable
\* element operations executed so far, the one that is to throw, whether an
\* exception is in flight, whether a block was released while a slot of it
\* was constructed, the number of elements relocated into a new block, and
\* the events of the call in the order the code produces them.
Begin(h, f) ==
    [h |-> h, f |-> f, cnt |-> 0, thrown |-> FALSE, leak |-> FALSE, reloc |-> 0, log |-> <<>>]

\* An event: operator new ("alloc", block b of i slots), operator delete
\* ("free", block b from slot i on), a construction, assignment or
\* destruction at slot i of block b, or data_.Swap ("swap", block b given
\* for block i).
Ev(e, b, i) == [e |-> e, b |-> b, i |-> i]
Emit(s, e, b, i) == [s EXCEPT !.log = Append(@, Ev(e, b, i))]

\* RawMemory(capacity) in the running state s.
RawMemoryCtor(s, n) ==
    IF n # 0
      THEN Emit([s EXCEPT !.h = RawMemoryCreate(@, n)], "alloc", Allocate(s.h, n), n)
      ELSE s

\* data_.Swap(other): the object gives the block b1 for the block b2.
SwapData(s, b1, b2) == Emit(s, "swap", b1, b2)

\* operator delete(buf) on the start of a block (or on nullptr).
Deallocate(s, b) ==
    IF b = Null THEN s
    ELSE Emit([s EXCEPT !.h[b] = FreeBlock,
                        !.leak = @ \/ \E k \in 1..Len(s.h[b].slots) :
                                          Constructed(s.h[b].slots[k])],
              "free", b, 0)

----------------------------------------------------------------------------
\* Element operations

\* T value(args...): a throwing-capable construction outside the heap.
ConstructLocal(s) ==
    IF s.thrown THEN s
    ELSE IF s.cnt + 1 = s.f THEN [s EXCEPT !.cnt = @ + 1, !.thrown = TRUE]
    ELSE [s EXCEPT !.cnt = @ + 1]

\* new (b + i) T(x): copy, value or argument construction into a raw slot.
ConstructAt(s, b, i, x) ==
    IF s.thrown THEN s
    ELSE IF s.cnt + 1 = s.f THEN [s EXCEPT !.cnt = @ + 1, !.thrown = TRUE]
    ELSE Emit([s EXCEPT !.cnt = @ + 1, !.h = SetSlot(@, b, i, Live(x))], "construct", b, i)

\* b[i] = x: copy assignment to a constructed slot.
AssignAt(s, b, i, x) ==
    IF s.thrown THEN s
    ELSE IF s.cnt + 1 = s.f THEN [s EXCEPT !.cnt = @ + 1, !.thrown = TRUE]
    ELSE Emit([s EXCEPT !.cnt = @ + 1, !.h = SetSlot(@, b, i, Live(x))], "assign", b, i)

\* new (b2 + i2) T(std::move(b1[i1]))
MoveConstructAt(s, b1, i1, b2, i2) ==
    IF s.thrown THEN s
    ELSE IF nothrowMove
      THEN Emit([s EXCEPT !.h = SetSlot(SetSlot(@, b2, i2, Live(Slot(s.h, b1, i1).x)),
                                        b1, i1, MovedSlot)],
                "construct", b2, i2)
      ELSE ConstructAt(s, b2, i2, Slot(s.h, b1, i1).x)

\* b2[i2] = std::move(b1[i1])
MoveAssignAt(s, b1, i1, b2, i2) ==
    IF s.thrown THEN s
    ELSE IF nothrowMove
      THEN Emit([s EXCEPT !.h = SetSlot(SetSlot(@, b2, i2, Live(Slot(s.h, b1, i1).x)),
                                        b1, i1, MovedSlot)],
                "assign", b2, i2)
      ELSE AssignAt(s, b2, i2, Slot(s.h, b1, i1).x)

\* b[i] = std::move(value), value a local holding x
AssignFromLocal(s, b, i, x) ==
    IF s.thrown THEN s
    ELSE IF nothrowMove
      THEN Emit([s EXCEPT !.h = SetSlot(@, b, i, Live(x))], "assign", b, i)
      ELSE AssignAt(s, b, i, x)

\* std::destroy_at(b + i)
destroy_at(s, b, i) == Emit([s EXCEPT !.h = SetSlot(@, b, i, RawSlot)], "destroy", b, i)

\* std::destroy_n(b + off, n): front to back
RECURSIVE destroy_n(_, _, _, _)
destroy_n(s, b, off, n) ==
    IF n = 0 THEN s ELSE destroy_n(destroy_at(s, b, off), b, off + 1, n - 1)

\* std::uninitialized_copy_n(b1 + o1, n, b2 + o2) from its k-th element on:
\* a throwing copy destroys the k copies made so far and rethrows.
RECURSIVE UninitCopyFrom(_, _, _, _, _, _, _)
UninitCopyFrom(s, b1, o1, n, b2, o2, k) ==
    IF k = n THEN s
    ELSE LET t == ConstructAt(s, b2, o2 + k, Slot(s.h, b1, o1 + k).x)
         IN  IF t.thrown THEN destroy_n(t, b2, o2, k)
             ELSE UninitCopyFrom([t EXCEPT !.reloc = @ + 1], b1, o1, n, b2, o2, k + 1)

uninitialized_copy_n(s, b1, o1, n, b2, o2) ==
    IF s.thrown THEN s ELSE UninitCopyFrom(s, b1, o1, n, b2, o2, 0)

\* std::uninitialized_move_n(b1 + o1, n, b2 + o2) from its k-th element on.
RECURSIVE UninitMoveFrom(_, _, _, _, _, _, _)
UninitMoveFrom(s, b1, o1, n, b2, o2, k) ==
    IF k = n THEN s
    ELSE LET t == MoveConstructAt(s, b1, o1 + k, b2, o2 + k)
         IN  IF t.thrown THEN destroy_n(t, b2, o2, k)
             ELSE UninitMoveFrom([t EXCEPT !.reloc = @ + 1], b1, o1, n, b2, o2, k + 1)

uninitialized_move_n(s, b1, o1, n, b2, o2) ==
    IF s.thrown THEN s ELSE UninitMoveFrom(s, b1, o1, n, b2, o2, 0)

\* std::uninitialized_value_construct_n(b + off, n) from its k-th element on.
RECURSIVE ValueConstructFrom(_, _, _, _, _)
ValueConstructFrom(s, b, off, n, k) ==
    IF k = n THEN s
    ELSE LET t == ConstructAt(s, b, off + k, Default)
         IN  IF t.thrown THEN destroy_n(t, b, off, k)
             ELSE ValueConstructFrom(t, b, off, n, k + 1)

uninitialized_value_construct_n(s, b, off, n) ==
    IF s.thrown THEN s ELSE ValueConstructFrom(s, b, off, n, 0)

\* std::copy_n(b1, n, b2): copy assignment of elements 0..n-1, in order;
\* a throwing assignment leaves the earlier ones assigned.
RECURSIVE copy_n(_, _, _, _, _)
copy_n(s, b1, n, b2, k) ==
    IF s.thrown \/ k = n THEN s
    ELSE copy_n(AssignAt(s, b2, k, Slot(s.h, b1, k).x), b1, n, b2, k + 1)

\* std::move(b + first, b + lst, b + dst): move assignment, front to back.
RECURSIVE move_range(_, _, _, _, _)
move_range(s, b, first, lst, dst) ==
    IF s.thrown \/ first >= lst THEN s
    ELSE move_range(MoveAssignAt(s, b, first, b, dst), b, first + 1, lst, dst + 1)

\* std::move_backward(b + first, b + lst, b + dlast): move assignment, back to front.
RECURSIVE move_backward(_, _, _, _, _)
move_backward(s, b, first, lst, dlast) ==
    IF s.thrown \/ first >= lst THEN s
    ELSE move_backward(MoveAssignAt(s, b, lst - 1, b, dlast - 1), b, first, lst - 1, dlast - 1)

----------------------------------------------------------------------------
\* Vector<T>: the operations as functions of the object d (and the source
\* object e) and the running state s.  Each yields the object afterwards (d),
\* the running state (s) and the path taken.

NoRawMemory == [alive |-> FALSE, buf |-> Null, cap |-> 0]
NoVector == [alive |-> FALSE, buf |-> Null, cap |-> 0, size |-> 0]
EmptyVector == [alive |-> TRUE, buf |-> Null, cap |-> 0, size |-> 0]

\* Mutant of SizedCtorOp: the block is not released when a construction throws.
SizedCtorOp_KeepsBlock(s0, n) ==
    LET nb == Allocate(s0.h, n)
        s1 == RawMemoryCtor(s0, n)
        s2 == uninitialized_value_construct_n(s1, nb, 0, n)
    IN  IF s2.thrown
          THEN [d |-> NoVector, s |-> s2, path |-> "ctor"]
          ELSE [d |-> [alive |-> TRUE, buf |-> nb, cap |-> n, size |-> n], s |-> s2, path |-> "ctor"]

\* Mutant of SizedCtorOp: size_(size) without constructing the elements.
SizedCtorOp_NoElements(s0, n) ==
    [d |-> [alive |-> TRUE, buf |-> Allocate(s0.h, n), cap |-> n, size |-> n],
     s |-> RawMemoryCtor(s0, n), path |-> "ctor"]

\* Vector(size_t size)
SizedCtorOp(s0, n) ==
    LET nb == Allocate(s0.h, n)
        s1 == RawMemoryCtor(s0, n)
        s2 == uninitialized_value_construct_n(s1, nb, 0, n)
    IN  IF s2.thrown
          THEN [d |-> NoVector, s |-> Deallocate(s2, nb), path |-> "ctor"]
          ELSE [d |-> [alive |-> TRUE, buf |-> nb, cap |-> n, size |-> n], s |-> s2, path |-> "ctor"]

\* Mutant of CopyCtorOp: the copy takes the source's buffer_ instead of
\* copying the elements into a block of its own.
CopyCtorOp_Shallow(e, s0) ==
    [d |-> [alive |-> TRUE, buf |-> e.buf, cap |-> e.size, size |-> e.size], s |-> s0,
     path |-> "ctor"]

\* Vector(const Vector& other)
CopyCtorOp(e, s0) ==
    LET nb == Allocate(s0.h, e.size)
        s1 == RawMemoryCtor(s0, e.size)
        s2 == uninitialized_copy_n(s1, e.buf, 0, e.size, nb, 0)
    IN  IF s2.thrown
          THEN [d |-> NoVector, s |-> Deallocate(s2, nb), path |-> "ctor"]
          ELSE [d |-> [alive |-> TRUE, buf |-> nb, cap |-> e.size, size |-> e.size],
                s |-> s2, path |-> "ctor"]

\* ~Vector(), then ~RawMemory()
DtorOp(d, s0) ==
    [d |-> NoVector, s |-> Deallocate(destroy_n(s0, d.buf, 0, d.size), d.buf), path |-> "dtor"]

\* Mutant of CopyAssignOp: copy_size = rhs.size_, so the slots [size_, rhs.size_)
\* are assigned to and then constructed.
CopyAssignOp_AssignsAll(d, e, s0, same) ==
    IF same THEN [d |-> d, s |-> s0, path |-> "self"]
    ELSE IF e.size <= d.cap
      THEN LET copy_size == e.size
               s1 == copy_n(s0, e.buf, copy_size, d.buf, 0)
               s2 == IF s1.thrown THEN s1
                     ELSE IF d.size > e.size
                       THEN destroy_n(s1, d.buf, e.size, d.size - e.size)
                     ELSE IF d.size < e.size
                       THEN uninitialized_copy_n(s1, e.buf, d.size, e.size - d.size, d.buf, d.size)
                     ELSE s1
           IN  [d |-> IF s2.thrown THEN d ELSE [d EXCEPT !.size = e.size],
                s |-> s2, path |-> "inplace"]
      ELSE LET r == CopyCtorOp(e, s0)
           IN  IF r.s.thrown
                 THEN [d |-> d, s |-> r.s, path |-> "realloc"]
                 ELSE [d |-> r.d, s |-> DtorOp(d, SwapData(r.s, d.buf, r.d.buf)).s, path |-> "realloc"]

\* operator=(const Vector& rhs); same: this == &rhs
CopyAssignOp(d, e, s0, same) ==
    IF same THEN [d |-> d, s |-> s0, path |-> "self"]
    ELSE IF e.size <= d.cap
      THEN LET copy_size == Min(d.size, e.size)
               s1 == copy_n(s0, e.buf, copy_size, d.buf, 0)
               s2 == IF s1.thrown THEN s1
                     ELSE IF d.size > e.size
                       THEN destroy_n(s1, d.buf, e.size, d.size - e.size)
                     ELSE IF d.size < e.size
                       THEN uninitialized_copy_n(s1, e.buf, d.size, e.size - d.size, d.buf, d.size)
                     ELSE s1
           IN  [d |-> IF s2.thrown THEN d ELSE [d EXCEPT !.size = e.size],
                s |-> s2, path |-> "inplace"]
      ELSE LET r == CopyCtorOp(e, s0)
           IN  IF r.s.thrown
                 THEN [d |-> d, s |-> r.s, path |-> "realloc"]
                 ELSE [d |-> r.d, s |-> DtorOp(d, SwapData(r.s, d.buf, r.d.buf)).s, path |-> "realloc"]

\* Mutant of ReserveOp: the old elements are destroyed before the copies
\* are made, so a throwing copy finds them gone.
ReserveOp_DestroysFirst(d, s0, n) ==
    IF n <= d.cap THEN [d |-> d, s |-> s0, path |-> "noop"]
    ELSE LET nb == Allocate(s0.h, n)
             s1 == RawMemoryCtor(s0, n)
             s2 == IF nothrowMove
                     THEN uninitialized_move_n(s1, d.buf, 0, d.size, nb, 0)
                     ELSE uninitialized_copy_n(s1, d.buf, 0, d.size, nb, 0)
         IN  IF s2.thrown
               THEN [d |-> d, s |-> Deallocate(destroy_n(s2, d.buf, 0, d.size), nb),
                     path |-> "realloc"]
               ELSE [d |-> [d EXCEPT !.buf = nb, !.cap = n],
                     s |-> Deallocate(SwapData(destroy_n(s2, d.buf, 0, d.size), d.buf, nb), d.buf),
                     path |-> "realloc"]

\* Mutant of ReserveOp: new_capacity < Capacity() instead of <=.
ReserveOp_Strict(d, s0, n) ==
    IF n < d.cap THEN [d |-> d, s |-> s0, path |-> "noop"]
    ELSE LET nb == Allocate(s0.h, n)
             s1 == RawMemoryCtor(s0, n)
             s2 == IF nothrowMove
                     THEN uninitialized_move_n(s1, d.buf, 0, d.size, nb, 0)
                     ELSE uninitialized_copy_n(s1, d.buf, 0, d.size, nb, 0)
         IN  IF s2.thrown
               THEN [d |-> d, s |-> Deallocate(s2, nb), path |-> "realloc"]
               ELSE [d |-> [d EXCEPT !.buf = nb, !.cap = n],
                     s |-> Deallocate(SwapData(destroy_n(s2, d.buf, 0, d.size), d.buf, nb), d.buf),
                     path |-> "realloc"]

\* Reserve(size_t new_capacity)
ReserveOp(d, s0, n) ==
    IF n <= d.cap THEN [d |-> d, s |-> s0, path |-> "noop"]
    ELSE LET nb == Allocate(s0.h, n)
             s1 == RawMemoryCtor(s0, n)
             s2 == IF nothrowMove
                     THEN uninitialized_move_n(s1, d.buf, 0, d.size, nb, 0)
                     ELSE uninitialized_copy_n(s1, d.buf, 0, d.size, nb, 0)
         IN  IF s2.thrown
               THEN [d |-> d, s |-> Deallocate(s2, nb), path |-> "realloc"]
               ELSE [d |-> [d EXCEPT !.buf = nb, !.cap = n],
                     s |-> Deallocate(SwapData(destroy_n(s2, d.buf, 0, d.size), d.buf, nb), d.buf),
                     path |-> "realloc"]

\* Mutant of ResizeCapacity: no doubling.
ResizeCapacity_Exact(cap, n) == n

\* std::max(data_.Capacity() * 2, new_size)
ResizeCapacity(cap, n) == Max(cap * 2, n)

\* Resize(size_t new_size)
ResizeOp(d, s0, n) ==
    IF n < d.size
      THEN [d |-> [d EXCEPT !.size = n], s |-> destroy_n(s0, d.buf, n, d.size - n),
            path |-> "shrink"]
      ELSE LET r == IF n > d.cap THEN ReserveOp(d, s0, ResizeCapacity(d.cap, n))
                    ELSE [d |-> d, s |-> s0, path |-> "noop"]
               s2 == uninitialized_value_construct_n(r.s, r.d.buf, d.size, n - d.size)
           IN  [d |-> IF s2.thrown THEN r.d ELSE [r.d EXCEPT !.size = n],
                s |-> s2, path |-> IF n > d.cap THEN "realloc" ELSE "inplace"]

\* Mutant of PopBackOp: --size_ without std::destroy_at.
PopBackOp_NoDestroy(d, s0) ==
    IF d.size # 0
      THEN [d |-> [d EXCEPT !.size = @ - 1], s |-> s0, path |-> "pop"]
      ELSE [d |-> d, s |-> s0, path |-> "noop"]

\* PopBack()
PopBackOp(d, s0) ==
    IF d.size # 0
      THEN [d |-> [d EXCEPT !.size = @ - 1], s |-> destroy_at(s0, d.buf, d.size - 1),
            path |-> "pop"]
      ELSE [d |-> d, s |-> s0, path |-> "noop"]

\* Mutant of EraseOp: the elements after pos are not shifted.
EraseOp_NoShift(d, s0, i, ub) ==
    IF i = d.size
      THEN [d |-> d, s |-> s0, path |-> "undefined", ret |-> i]
      ELSE [d |-> [d EXCEPT !.size = @ - 1], s |-> destroy_at(s0, d.buf, d.size - 1),
            path |-> "erase", ret |-> i]

\* size_t arithmetic
SizeModulus == 2 ^ SizeBits

\* What Erase(cend()) does once the assertion has let it pass:
\* std::move(begin() + position + 1, end(), ...) gets a range whose first is
\* past its last, which is undefined: the copy loop runs off the block and
\* the process dies ("abort"), or it copies nothing and the call goes on
\* ("proceeds").
EraseUB == {"abort", "proceeds"}

\* Erase(pos), pos = begin() + i <= cend().  With pos = cend() and the
\* call going on, std::destroy_at(end() - 1) destroys the last element (with
\* size_ = 0 it is handed an address before the block, which the model
\* leaves without effect on the heap) and --size_ wraps at 0.
EraseOp(d, s0, i, ub) ==
    IF i = d.size
      THEN IF ub = "abort"
             THEN [d |-> d, s |-> s0, path |-> "undefined", ret |-> i]
             ELSE [d |-> [d EXCEPT !.size = (@ - 1) % SizeModulus],
                   s |-> IF d.size > 0 THEN destroy_at(s0, d.buf, d.size - 1) ELSE s0,
                   path |-> "undefined", ret |-> i]
      ELSE LET s1 == move_range(s0, d.buf, i + 1, d.size, i)
           IN  IF s1.thrown
                 THEN [d |-> d, s |-> s1, path |-> "erase", ret |-> i]
                 ELSE [d |-> [d EXCEPT !.size = @ - 1], s |-> destroy_at(s1, d.buf, d.size - 1),
                       path |-> "erase", ret |-> i]

\* What operator delete(end()) of the catch handler does.  With size_ = 0
\* end() is the block itself, which is released while data_ still holds it.
\* Otherwise end() is no address operator new returned and the call has
\* undefined behaviour: the allocator aborts ("abort"), takes the slots from
\* end() on as a region given back ("released"), or does nothing ("ignored").
UBOutcomes == {"abort", "released", "ignored"}

DeleteAtEnd(s, b, off, ub) ==
    IF off = 0 THEN Deallocate(s, b)
    ELSE IF ub = "released"
      THEN Emit([s EXCEPT !.h[b].slots = [k \in 1..Len(@) |-> IF k > off THEN FreedSlot ELSE @[k]],
                          !.leak = @ \/ \E k \in (off + 1)..Len(s.h[b].slots) :
                                            Constructed(s.h[b].slots[k])],
                "free", b, off)
      ELSE s

\* EmplaceWithoutRelocation(pos, args...), pos = begin() + i, args = x
EmplaceWithoutRelocation(d, s0, i, x, ub) ==
    LET b == d.buf
        s1 == IF i # d.size
                THEN LET t1 == ConstructLocal(s0)
                         t2 == MoveConstructAt(t1, b, d.size - 1, b, d.size)
                         t3 == move_backward(t2, b, i, d.size - 1, d.size)
                     IN  AssignFromLocal(t3, b, i, x)
                ELSE ConstructAt(s0, b, d.size, x)
    IN  [d |-> d, s |-> IF s1.thrown THEN DeleteAtEnd(s1, b, d.size, ub) ELSE s1]

\* Mutant of GrowthCapacity: growth by one slot.
GrowthCapacity_PlusOne(size) == size + 1

\* size_ == 0 ? 1 : size_ * 2
GrowthCapacity(size) == IF size = 0 THEN 1 ELSE size * 2

\* Mutant of EmplaceWithRelocation: the elements from pos on are relocated
\* to new_data + position instead of new_data + position + 1.
EmplaceWithRelocation_NoGap(d, s0, i, x) ==
    LET n == GrowthCapacity(d.size)
        nb == Allocate(s0.h, n)
        s1 == RawMemoryCtor(s0, n)
        s2 == ConstructAt(s1, nb, i, x)
        s3 == IF nothrowMove
                THEN uninitialized_move_n(s2, d.buf, 0, i, nb, 0)
                ELSE uninitialized_copy_n(s2, d.buf, 0, i, nb, 0)
        s4 == IF nothrowMove
                THEN uninitialized_move_n(s3, d.buf, i, d.size - i, nb, i)
                ELSE uninitialized_copy_n(s3, d.buf, i, d.size - i, nb, i)
    IN  IF s4.thrown
          THEN [d |-> d, s |-> Deallocate(s4, nb)]
          ELSE [d |-> [d EXCEPT !.buf = nb, !.cap = n],
                s |-> Deallocate(SwapData(destroy_n(s4, d.buf, 0, d.size), d.buf, nb), d.buf)]

\* Mutant of EmplaceWithRelocation: data_.Swap(new_data) before
\* std::destroy_n, which then runs on the new block.
EmplaceWithRelocation_SwapsFirst(d, s0, i, x) ==
    LET n == GrowthCapacity(d.size)
        nb == Allocate(s0.h, n)
        s1 == RawMemoryCtor(s0, n)
        s2 == ConstructAt(s1, nb, i, x)
        s3 == IF nothrowMove
                THEN uninitialized_move_n(s2, d.buf, 0, i, nb, 0)
                ELSE uninitialized_copy_n(s2, d.buf, 0, i, nb, 0)
        s4 == IF nothrowMove
                THEN uninitialized_move_n(s3, d.buf, i, d.size - i, nb, i + 1)
                ELSE uninitialized_copy_n(s3, d.buf, i, d.size - i, nb, i + 1)
    IN  IF s4.thrown
          THEN [d |-> d, s |-> Deallocate(s4, nb)]
          ELSE [d |-> [d EXCEPT !.buf = nb, !.cap = n],
                s |-> Deallocate(destroy_n(SwapData(s4, d.buf, nb), nb, 0, d.size), d.buf)]

\* EmplaceWithRelocation(pos, args...), pos = begin() + i, args = x
EmplaceWithRelocation(d, s0, i, x) ==
    LET n == GrowthCapacity(d.size)
        nb == Allocate(s0.h, n)
        s1 == RawMemoryCtor(s0, n)
        s2 == ConstructAt(s1, nb, i, x)
        s3 == IF nothrowMove
                THEN uninitialized_move_n(s2, d.buf, 0, i, nb, 0)
                ELSE uninitialized_copy_n(s2, d.buf, 0, i, nb, 0)
        s4 == IF nothrowMove
                THEN uninitialized_move_n(s3, d.buf, i, d.size - i, nb, i + 1)
                ELSE uninitialized_copy_n(s3, d.buf, i, d.size - i, nb, i + 1)
    IN  IF s4.thrown
          THEN [d |-> d, s |-> Deallocate(s4, nb)]
          ELSE [d |-> [d EXCEPT !.buf = nb, !.cap = n],
                s |-> Deallocate(SwapData(destroy_n(s4, d.buf, 0, d.size), d.buf, nb), d.buf)]

\* Mutant of EmplaceOp: every insertion relocates.
EmplaceOp_AlwaysRelocates(d, s0, i, x, ub) ==
    LET r == EmplaceWithRelocation(d, s0, i, x)
    IN  [d |-> IF r.s.thrown THEN r.d ELSE [r.d EXCEPT !.size = @ + 1],
         s |-> r.s,
         path |-> IF d.cap > d.size THEN "inplace" ELSE "realloc",
         ret |-> i]

\* Emplace(pos, args...), pos = begin() + i, args = x
EmplaceOp(d, s0, i, x, ub) ==
    LET inplace == d.cap > d.size
        r == IF inplace THEN EmplaceWithoutRelocation(d, s0, i, x, ub)
             ELSE EmplaceWithRelocation(d, s0, i, x)
    IN  [d |-> IF r.s.thrown THEN r.d ELSE [r.d EXCEPT !.size = @ + 1],
         s |-> r.s,
         path |-> IF inplace THEN "inplace" ELSE "realloc",
         ret |-> i]

----------------------------------------------------------------------------
\* The state machine

\* last: the call that ran last: the object v it ran on, the other object
\* w, its outcome, the path it took, whether it released a block holding a
\* constructed element and, when it completed, its index or size argument
\* i, its value argument x and the index ret of the position it returned;
\* log: the events of the call.
NoOp == [op |-> "Init", v |-> 0, w |-> 0, i |-> 0, x |-> 0, out |-> "ok", path |-> "",
         ret |-> 0, leak |-> FALSE, log |-> <<>>]

Init ==
    /\ vec = [v \in Vecs |-> NoVector]
    /\ mem = [m \in Mems |-> NoRawMemory]
    /\ heap = [b \in Blocks |-> FreeBlock]
    /\ nothrowMove \in BOOLEAN
    /\ last = NoOp
    /\ halted = FALSE
    /\ pushes = <<>>
    /\ relocs = 0

Usable(v) == ~halted /\ vec[v].alive
Fresh(v) == ~halted /\ ~vec[v].alive

\* f = 0, or the f-th throwing-capable element operation of the call exists (and throws)
Injected(r, f) == f = 0 \/ r.s.thrown

\* Of n moves of elements, the number that may throw.
ThrowingMoves(n) == IF nothrowMove THEN 0 ELSE n

Outcome(r) == IF r.s.thrown THEN "throw" ELSE "ok"

\* The object v becomes r.d, the heap r.s.h; last records the call.
Commit(v, r, op, w, i, ret) ==
    /\ vec' = [vec EXCEPT ![v] = r.d]
    /\ heap' = r.s.h
    /\ last' = [op |-> op, v |-> v, w |-> w, i |-> IF r.s.thrown THEN 0 ELSE i, x |-> 0,
                out |-> Outcome(r), path |-> r.path,
                ret |-> IF r.s.thrown THEN 0 ELSE ret, leak |-> r.s.leak, log |-> r.s.log]
    /\ halted' = FALSE
    /\ UNCHANGED <<mem, nothrowMove, pushes, relocs>>

\* Vector()
DefaultCtor(v) ==
    /\ Fresh(v)
    /\ Commit(v, [d |-> EmptyVector, s |-> Begin(heap, 0), path |-> "ctor"], "DefaultCtor", 0, 0, 0)

\* Vector(size_t size)
SizedCtor(v, n, f) ==
    /\ Fresh(v)
    /\ f <= n
    /\ \E r \in {SizedCtorOp(Begin(heap, f), n)} :
           Injected(r, f) /\ Commit(v, r, "SizedCtor", 0, n, 0)

\* Vector(const Vector& other)
CopyCtor(v, w, f) ==
    /\ Fresh(v) /\ Usable(w)
    /\ f <= vec[w].size
    /\ \E r \in {CopyCtorOp(vec[w], Begin(heap, f))} :
           Injected(r, f) /\ Commit(v, r, "CopyCtor", w, 0, 0)

\* Mutant of MoveCtorOp: size_(other.size_), the source keeps its size.
MoveCtorOp_KeepsSize(vc, v, w) ==
    [vc EXCEPT ![v] = vc[w], ![w] = [EmptyVector EXCEPT !.size = vc[w].size]]

\* Vector(Vector&& other): data_(std::move(other.data_)), size_(std::exchange(other.size_, 0))
MoveCtorOp(vc, v, w) == [vc EXCEPT ![v] = vc[w], ![w] = EmptyVector]

MoveCtor(v, w) ==
    /\ Fresh(v) /\ Usable(w)
    /\ vec' = MoveCtorOp(vec, v, w)
    /\ last' = [NoOp EXCEPT !.op = "MoveCtor", !.v = v, !.w = w]
    /\ UNCHANGED <<mem, heap, nothrowMove, halted, pushes, relocs>>

\* operator=(const Vector& rhs)
CopyAssign(v, w, f) ==
    /\ Usable(v) /\ Usable(w)
    /\ f <= (IF v = w THEN 0 ELSE vec[w].size)
    /\ \E r \in {CopyAssignOp(vec[v], vec[w], Begin(heap, f), v = w)} :
           Injected(r, f) /\ Commit(v, r, "CopyAssign", w, 0, 0)

\* Mutant of SwapOp: data_.Swap(other.data_) without std::swap(size_, other.size_).
SwapOp_DataOnly(vc, v, w) ==
    [vc EXCEPT ![v] = [vc[w] EXCEPT !.size = vc[v].size],
               ![w] = [vc[v] EXCEPT !.size = vc[w].size]]

\* Swap(Vector& other): data_.Swap(other.data_); std::swap(size_, other.size_)
SwapOp(vc, v, w) == [vc EXCEPT ![v] = vc[w], ![w] = vc[v]]

\* operator=(Vector&& rhs): Swap(rhs)
MoveAssign(v, w) ==
    /\ Usable(v) /\ Usable(w)
    /\ vec' = SwapOp(vec, v, w)
    /\ last' = [NoOp EXCEPT !.op = "MoveAssign", !.v = v, !.w = w]
    /\ UNCHANGED <<mem, heap, nothrowMove, halted, pushes, relocs>>

\* Swap(Vector& other)
Swap(v, w) ==
    /\ Usable(v) /\ Usable(w)
    /\ vec' = SwapOp(vec, v, w)
    /\ last' = [NoOp EXCEPT !.op = "Swap", !.v = v, !.w = w]
    /\ UNCHANGED <<mem, heap, nothrowMove, halted, pushes, relocs>>

\* ~Vector()
Dtor(v) ==
    /\ Usable(v)
    /\ Commit(v, DtorOp(vec[v], Begin(heap, 0)), "Dtor", 0, 0, 0)

\* Reserve(size_t new_capacity)
Reserve(v, n, f) ==
    /\ Usable(v)
    /\ f <= (IF n > vec[v].cap THEN ThrowingMoves(vec[v].size) ELSE 0)
    /\ \E r \in {ReserveOp(vec[v], Begin(heap, f), n)} :
           Injected(r, f) /\ Commit(v, r, "Reserve", 0, n, 0)

\* Resize(size_t new_size)
Resize(v, n, f) ==
    /\ Usable(v)
    /\ f <= (IF n > vec[v].cap THEN ThrowingMoves(vec[v].size) ELSE 0) + Max(n - vec[v].size, 0)
    /\ \E r \in {ResizeOp(vec[v], Begin(heap, f), n)} :
           Injected(r, f) /\ Commit(v, r, "Resize", 0, n, 0)

\* PopBack()
PopBack(v) ==
    /\ Usable(v)
    /\ Commit(v, PopBackOp(vec[v], Begin(heap, 0)), "PopBack", 0, 0, 0)

\* Erase(const_iterator pos) with a pos that passes
\* assert(pos >= cbegin() && pos <= cend()).  A call with pos = cend() has
\* outcome "abort" or "undefined" and the execution is followed no further.
Erase(v, i, f, ub) ==
    /\ Usable(v)
    /\ i <= vec[v].size
    /\ f <= ThrowingMoves(Max(vec[v].size - 1 - i, 0))
    /\ ub = "proceeds" \/ i = vec[v].size
    /\ \E r \in {EraseOp(vec[v], Begin(heap, f), i, ub)} :
          /\ Injected(r, f)
          /\ vec' = [vec EXCEPT ![v] = r.d]
          /\ heap' = r.s.h
          /\ last' = [op |-> "Erase", v |-> v, w |-> 0, i |-> IF r.s.thrown THEN 0 ELSE i,
                      x |-> 0,
                      out |-> IF r.path = "undefined"
                                THEN (IF ub = "abort" THEN "abort" ELSE "undefined")
                                ELSE Outcome(r),
                      path |-> r.path, ret |-> IF r.s.thrown THEN 0 ELSE r.ret,
                      leak |-> r.s.leak, log |-> r.s.log]
          /\ halted' = (r.path = "undefined")
          /\ UNCHANGED <<mem, nothrowMove, pushes, relocs>>

\* The call Emplace(begin() + i, x) under the name op.  A failure on the
\* path without relocation runs operator delete(end()); the execution is
\* not followed beyond the state that leaves: with size_ > 0 the behaviour
\* is undefined from there on, with size_ = 0 the object holds a released
\* block, which every later use of it (its destructor included) touches.
EmplaceCall(op, v, i, x, f, ub) ==
    /\ f <= 1 + ThrowingMoves(vec[v].size + 1)
    /\ ub = "ignored" \/ (f > 0 /\ vec[v].cap > vec[v].size /\ vec[v].size > 0)
    /\ \E r \in {EmplaceOp(vec[v], Begin(heap, f), i, x, ub)} :
          LET undefined == r.s.thrown /\ r.path = "inplace" /\ vec[v].size > 0
          IN  /\ Injected(r, f)
              /\ ub = "ignored" \/ undefined
              /\ vec' = [vec EXCEPT ![v] = r.d]
              /\ heap' = r.s.h
              /\ last' = [op |-> op, v |-> v, w |-> 0,
                          i |-> IF r.s.thrown THEN 0 ELSE i,
                          x |-> IF r.s.thrown THEN 0 ELSE x,
                          out |-> IF undefined /\ ub = "abort" THEN "abort" ELSE Outcome(r),
                          path |-> r.path, ret |-> IF r.s.thrown THEN 0 ELSE r.ret,
                          leak |-> r.s.leak, log |-> r.s.log]
              /\ halted' = (r.s.thrown /\ r.path = "inplace")
              /\ UNCHANGED <<mem, nothrowMove>>

\* Emplace(const_iterator pos, Args&&... args); Insert(pos, value) is Emplace(pos, value)
Emplace(v, i, x, f, ub) ==
    /\ Usable(v)
    /\ i <= vec[v].size
    /\ EmplaceCall("Emplace", v, i, x, f, ub)
    /\ UNCHANGED <<pushes, relocs>>

\* PushBack(value): EmplaceBack(value): *Emplace(cend(), value)
PushBack(v, x, f, ub) ==
    /\ Usable(v)
    /\ EmplaceCall("PushBack", v, vec[v].size, x, f, ub)
    /\ UNCHANGED <<pushes, relocs>>

----------------------------------------------------------------------------
\* Spec: every operation of one Vector.

FailPoints == 0..(MaxSize + 2)

Next ==
    \/ DefaultCtor(1)
    \/ \E n \in 0..MaxSize, f \in FailPoints : SizedCtor(1, n, f)
    \/ Dtor(1)
    \/ \E n \in 0..MaxCap, f \in FailPoints : Reserve(1, n, f)
    \/ \E n \in 0..MaxSize, f \in FailPoints :
          ResizeCapacity(vec[1].cap, n) <= MaxCap /\ Resize(1, n, f)
    \/ PopBack(1)
    \/ \E i \in 0..MaxSize, f \in FailPoints, ub \in EraseUB : Erase(1, i, f, ub)
    \/ \E i \in 0..MaxSize, x \in Values, f \in FailPoints, ub \in UBOutcomes :
          vec[1].size < MaxSize /\ Emplace(1, i, x, f, ub)
    \/ \E x \in Values, f \in FailPoints, ub \in UBOutcomes :
          vec[1].size < MaxSize /\ PushBack(1, x, f, ub)

Spec == Init /\ [][Next]_vars

----------------------------------------------------------------------------
\* SpecPair: two Vectors of copy-only elements (nothrowMove = FALSE);
\* construction, copy, move, swap and destruction of each, and the mutating
\* operations of Vector 1, which is the source of a copy in some runs and
\* the copy in others.

PairValues == {1}
PairFail == 0..(PairMaxSize + 2)

NextPair ==
    \/ \E v \in Vecs : DefaultCtor(v)
    \/ \E v \in Vecs, n \in 0..PairMaxSize, f \in PairFail : SizedCtor(v, n, f)
    \/ \E v, w \in Vecs, f \in PairFail : CopyCtor(v, w, f)
    \/ \E v, w \in Vecs : MoveCtor(v, w)
    \/ \E v, w \in Vecs, f \in PairFail : CopyAssign(v, w, f)
    \/ \E v, w \in Vecs : MoveAssign(v, w)
    \/ \E v, w \in Vecs : Swap(v, w)
    \/ \E v \in Vecs : Dtor(v)
    \/ \E n \in 0..PairMaxCap, f \in PairFail : Reserve(1, n, f)
    \/ \E n \in 0..PairMaxSize, f \in PairFail :
          ResizeCapacity(vec[1].cap, n) <= PairMaxCap /\ Resize(1, n, f)
    \/ PopBack(1)
    \/ \E i \in 0..PairMaxSize, f \in PairFail, ub \in EraseUB : Erase(1, i, f, ub)
    \/ \E i \in 0..PairMaxSize, x \in PairValues, f \in PairFail, ub \in UBOutcomes :
          /\ vec[1].size < PairMaxSize
          /\ vec[1].cap > vec[1].size \/ GrowthCapacity(vec[1].size) <= PairMaxCap
          /\ Emplace(1, i, x, f, ub)

InitPair == Init /\ nothrowMove = FALSE

SpecPair == InitPair /\ [][NextPair]_vars

----------------------------------------------------------------------------
\* SpecPush: N PushBack calls on one Vector created empty; every call completes.

PushBackCounted(x) ==
    /\ Usable(1)
    /\ Len(pushes) < MaxPush
    /\ EmplaceCall("PushBack", 1, vec[1].size, x, 0, "ignored")
    /\ pushes' = Append(pushes, x)
    /\ relocs' = relocs + EmplaceOp(vec[1], Begin(heap, 0), vec[1].size, x, "ignored").s.reloc

NextPush ==
    \/ pushes = <<>> /\ DefaultCtor(1)
    \/ \E x \in Values : PushBackCounted(x)

SpecPush == Init /\ [][NextPush]_vars

----------------------------------------------------------------------------
\* SpecRaw: RawMemory objects on their own: construction, move construction,
\* move assignment, Swap and destruction.

\* RawMemory(RawMemory&& other): buffer_(std::exchange(other.buffer_, nullptr)),
\* capacity_(std::exchange(other.capacity_, 0))
RawMoveCtorOp(mm, m, o) ==
    [mm EXCEPT ![m] = [alive |-> TRUE, buf |-> mm[o].buf, cap |-> mm[o].cap],
               ![o] = [alive |-> TRUE, buf |-> Null, cap |-> 0]]

\* operator=(RawMemory&& rhs): buffer_ and capacity_ are overwritten with
\* those of rhs, which is set to nullptr and 0; nothing is deallocated.
RawMoveAssignOp(mm, m, o) ==
    IF m # o
      THEN [mm EXCEPT ![m] = [alive |-> TRUE, buf |-> mm[o].buf, cap |-> mm[o].cap],
                      ![o] = [alive |-> TRUE, buf |-> Null, cap |-> 0]]
      ELSE mm

\* RawMemory::Swap(RawMemory& other)
RawSwapOp(mm, m, o) == [mm EXCEPT ![m] = mm[o], ![o] = mm[m]]

RawCommit(mm, s, op, m, o, n) ==
    /\ mem' = mm
    /\ heap' = s.h
    /\ last' = [NoOp EXCEPT !.op = op, !.v = m, !.w = o, !.i = n, !.leak = s.leak, !.log = s.log]
    /\ UNCHANGED <<vec, nothrowMove, halted, pushes, relocs>>

\* RawMemory(size_t capacity)
RawCreate(m, n) ==
    /\ ~mem[m].alive
    /\ n = 0 \/ \E b \in Blocks : ~heap[b].alloc
    /\ RawCommit([mem EXCEPT ![m] = [alive |-> TRUE, buf |-> Allocate(heap, n), cap |-> n]],
                 RawMemoryCtor(Begin(heap, 0), n), "RawCreate", m, 0, n)

RawMoveCtor(m, o) ==
    /\ ~mem[m].alive /\ mem[o].alive
    /\ RawCommit(RawMoveCtorOp(mem, m, o), Begin(heap, 0), "RawMoveCtor", m, o, 0)

RawMoveAssign(m, o) ==
    /\ mem[m].alive /\ mem[o].alive
    /\ RawCommit(RawMoveAssignOp(mem, m, o), Begin(heap, 0), "RawMoveAssign", m, o, 0)

RawSwap(m, o) ==
    /\ mem[m].alive /\ mem[o].alive
    /\ RawCommit(RawSwapOp(mem, m, o), Begin(heap, 0), "RawSwap", m, o, 0)

\* ~RawMemory(): Deallocate(buffer_)
RawDtor(m) ==
    /\ mem[m].alive
    /\ RawCommit([mem EXCEPT ![m] = NoRawMemory], Deallocate(Begin(heap, 0), mem[m].buf),
                 "RawDtor", m, 0, 0)

NextRaw ==
    \/ \E m \in Mems, n \in 0..MaxCap : RawCreate(m, n)
    \/ \E m, o \in Mems : RawMoveCtor(m, o)
    \/ \E m, o \in Mems : RawMoveAssign(m, o)
    \/ \E m, o \in Mems : RawSwap(m, o)
    \/ \E m \in Mems : RawDtor(m)

SpecRaw == Init /\ [][NextRaw]_vars

----------------------------------------------------------------------------
\* What the claims speak of

\* The block the object v of vc holds, in the heap hp.
BlockOf(vc, hp, v) == IF vc[v].buf = Null THEN FreeBlock ELSE hp[vc[v].buf]

\* Slot i of that block; freed when the block no longer has such a slot.
SlotOf(vc, hp, v, i) ==
    IF i < Len(BlockOf(vc, hp, v).slots) THEN BlockOf(vc, hp, v).slots[i + 1] ELSE FreedSlot

\* The element sequence of v: its slots [0, size).
ElemsOf(vc, hp, v) == [k \in 1..vc[v].size |-> SlotOf(vc, hp, v, k - 1)]
Elems(v) == ElemsOf(vec, heap, v)
ElemsAfter(v) == ElemsOf(vec', heap', v)

InsertAt(seq, i, e) == SubSeq(seq, 1, i) \o <<e>> \o SubSeq(seq, i + 1, Len(seq))
RemoveAt(seq, i) == SubSeq(seq, 1, i) \o SubSeq(seq, i + 2, Len(seq))

\* size <= capacity, the block is allocated with capacity slots, the slots
\* [0, size) are constructed and the slots [size, capacity) are raw.
WellFormed(v) ==
    LET d == vec[v]
        blk == BlockOf(vec, heap, v)
    IN  /\ 0 <= d.size /\ d.size <= d.cap
        /\ d.cap > 0 => d.buf # Null /\ blk.alloc
        /\ Len(blk.slots) = d.cap
        /\ \A k \in 1..d.cap : blk.slots[k].s = (IF k <= d.size THEN "live" ELSE "raw")

InsertOps == {"Emplace", "PushBack"}

\* C1: after every operation of a Vector, completed or failed with an
\* exception, size <= capacity, the slots [0, size) are constructed and the
\* slots [size, capacity) are raw slots of the allocated block.
C1_Invariant ==
    \A v \in Vecs : vec[v].alive /\ last.out \in {"ok", "throw"} => WellFormed(v)

\* C5: a failure of Emplace/Insert/PushBack on the path without relocation
\* leaves the object and the heap as they were before the call.
C5_InPlaceFailureRestores ==
    [][(last'.op \in InsertOps /\ last'.path = "inplace" /\ last'.out # "ok")
          => vec' = vec /\ heap' = heap]_vars

\* C2: a reallocating Reserve or Emplace/Insert/PushBack that fails leaves
\* the object with the size, the capacity, the block and the element
\* sequence it had before the call, and the heap as it was.
C2_ReallocFailureRestores ==
    [][(last'.op \in InsertOps \cup {"Reserve"} /\ last'.path = "realloc" /\ last'.out = "throw")
          => /\ vec'[last'.v] = vec[last'.v]
             /\ ElemsAfter(last'.v) = Elems(last'.v)
             /\ \A k \in 1..vec[last'.v].size : Elems(last'.v)[k].s = "live"
             /\ heap' = heap]_vars

\* Reserve(4) on a Vector of three elements failed in a copy.
C2_Witness ==
    /\ last.op = "Reserve" /\ last.out = "throw" /\ last.path = "realloc"
    /\ ~nothrowMove
    /\ vec[last.v].size = 3

\* C3: a completed Emplace/Insert of x at index i turns [a0..a_{k-1}] into
\* [a0..a_{i-1}, x, a_i..a_{k-1}], makes the size k + 1 and returns the
\* position of index i, with and without relocation.
C3_InsertAtPosition ==
    [][(last'.op \in InsertOps /\ last'.out = "ok")
          => /\ ElemsAfter(last'.v) = InsertAt(Elems(last'.v), last'.i, Live(last'.x))
             /\ vec'[last'.v].size = vec[last'.v].size + 1
             /\ last'.ret = last'.i
             /\ last'.path = (IF vec[last'.v].cap > vec[last'.v].size THEN "inplace" ELSE "realloc")]_vars

\* An insertion at the front of two elements, without relocation.
C3_Witness ==
    /\ last.op = "Emplace" /\ last.out = "ok" /\ last.path = "inplace"
    /\ last.i = 0
    /\ vec[last.v].size = 3

\* C4: a completed Erase at index i < k removes element i, keeps the others
\* in order, makes the size k - 1, leaves the capacity and the block, and
\* turns exactly the slot k - 1 raw.
C4_EraseAtPosition ==
    [][(last'.op = "Erase" /\ last'.out = "ok")
          => LET v == last'.v
                 k == vec[v].size
             IN  /\ ElemsAfter(v) = RemoveAt(Elems(v), last'.i)
                 /\ vec'[v] = [vec[v] EXCEPT !.size = k - 1]
                 /\ \A j \in (k - 1)..(vec[v].cap - 1) : SlotOf(vec', heap', v, j) = RawSlot
                 /\ \A k2 \in 1..(k - 1) : ElemsAfter(v)[k2].s = "live"
                 /\ last'.ret = last'.i]_vars

\* The first of three elements was erased.
C4_Witness ==
    /\ last.op = "Erase" /\ last.out = "ok"
    /\ last.i = 0
    /\ vec[last.v].size = 2

MoveOps == {"MoveCtor", "MoveAssign"}

\* C6 as stated: a move, by construction or by assignment, of w into
\* another object v leaves w with size 0 and capacity 0, and v with the
\* element sequence w had.
C6_MoveEmptiesSource ==
    [][(last'.op \in MoveOps /\ last'.v # last'.w)
          => /\ vec'[last'.w].size = 0
             /\ vec'[last'.w].cap = 0
             /\ ElemsAfter(last'.v) = Elems(last'.w)]_vars

\* C6 as amended: move construction leaves the source with size 0 and
\* capacity 0; move assignment leaves the source with the size, capacity,
\* block and elements the destination had; in both the destination has the
\* element sequence the source had.
C6_Move ==
    [][/\ last'.op = "MoveCtor"
            => /\ vec'[last'.w].size = 0
               /\ vec'[last'.w].cap = 0
               /\ ElemsAfter(last'.v) = Elems(last'.w)
       /\ last'.op = "MoveAssign"
            => /\ vec'[last'.w] = vec[last'.v]
               /\ ElemsAfter(last'.w) = Elems(last'.v)
               /\ ElemsAfter(last'.v) = Elems(last'.w)]_vars

\* A move assignment between two non-empty objects.
C6_Witness ==
    /\ last.op = "MoveAssign" /\ last.v # last.w
    /\ vec[last.v].size > 0
    /\ vec[last.w].size > 0
    /\ Elems(last.v) # Elems(last.w)

CopyOps == {"CopyCtor", "CopyAssign"}
ExchangeOps == {"MoveCtor", "MoveAssign", "Swap"}

\* No two live objects hold the same block.
NoSharedBlock(vc) ==
    \A u1, u2 \in Vecs :
        u1 # u2 /\ vc[u1].alive /\ vc[u2].alive /\ vc[u1].buf # Null => vc[u1].buf # vc[u2].buf

\* C7: a completed copy (construction or assignment) leaves the copy with
\* the source's element sequence in a block of its own and the source as
\* it was; every operation leaves the objects it is not called on (for a
\* copy: the source too) with their size, capacity, block and slots; no two
\* objects ever hold the same block.
C7_CopyIndependence ==
    [][/\ (last'.op \in CopyOps /\ last'.out = "ok" /\ last'.v # last'.w)
            => /\ ElemsAfter(last'.v) = Elems(last'.w)
               /\ \A k \in 1..vec[last'.w].size : Elems(last'.w)[k].s = "live"
               /\ vec'[last'.v].size = vec[last'.w].size
               /\ vec'[last'.v].buf # Null => vec'[last'.v].buf # vec'[last'.w].buf
       /\ \A u \in Vecs :
            (u # last'.v /\ ~(last'.op \in ExchangeOps /\ u = last'.w))
               => /\ vec'[u] = vec[u]
                  /\ BlockOf(vec', heap', u) = BlockOf(vec, heap, u)
       /\ NoSharedBlock(vec')]_vars

\* A copy of two elements was constructed.
C7_Witness ==
    /\ last.op = "CopyCtor" /\ last.out = "ok"
    /\ vec[last.v].size = 2
    /\ vec[last.w].size = 2
    /\ vec[last.v].buf # vec[last.w].buf

\* C8: a completed Resize(n) of a Vector of size k and capacity c makes the
\* size n and keeps the elements [0, min(k, n)); shrinking turns exactly the
\* slots [n, k) raw and keeps the capacity and the block; growing value-
\* constructs exactly the slots [k, n), and the capacity becomes
\* max(2c, n) if n > c and stays c (with the block) otherwise.
C8_Resize ==
    [][(last'.op = "Resize" /\ last'.out = "ok")
          => LET v == last'.v
                 n == last'.i
                 k == vec[v].size
                 c == vec[v].cap
             IN  /\ vec'[v].size = n
                 /\ \A j \in 0..(Min(k, n) - 1) :
                        /\ SlotOf(vec', heap', v, j) = SlotOf(vec, heap, v, j)
                        /\ SlotOf(vec', heap', v, j).s = "live"
                 /\ \A j \in k..(n - 1) : SlotOf(vec', heap', v, j) = Live(Default)
                 /\ \A j \in n..(vec'[v].cap - 1) : SlotOf(vec', heap', v, j) = RawSlot
                 /\ Len(BlockOf(vec', heap', v).slots) = vec'[v].cap
                 /\ vec'[v].cap = (IF n > c THEN Max(c * 2, n) ELSE c)
                 /\ n <= c => vec'[v].buf = vec[v].buf]_vars

\* Resize(3) on capacity 2 doubled the capacity to 4.
C8_Witness ==
    /\ last.op = "Resize" /\ last.out = "ok" /\ last.path = "realloc"
    /\ last.i = 3
    /\ vec[last.v].cap = 4
    /\ vec[last.v].size = 3

\* C9: Reserve(n) never changes the size or the element sequence; with
\* n <= capacity it changes nothing at all in the object or the heap; with
\* n > capacity the capacity afterwards is n.
C9_Reserve ==
    [][last'.op = "Reserve"
          => LET v == last'.v
             IN  /\ vec'[v].size = vec[v].size
                 /\ ElemsAfter(v) = Elems(v)
                 /\ (last'.out = "ok" /\ last'.i <= vec[v].cap) => vec' = vec /\ heap' = heap
                 /\ (last'.out = "ok" /\ last'.i > vec[v].cap)
                       => /\ vec'[v].cap = last'.i
                          /\ Len(BlockOf(vec', heap', v).slots) = last'.i
                 /\ last'.path = "noop" => last'.out = "ok" /\ last'.i <= vec[v].cap]_vars

\* Reserve with the capacity already there, on a Vector holding elements.
C9_Witness ==
    /\ last.op = "Reserve" /\ last.out = "ok" /\ last.path = "noop"
    /\ last.i = vec[last.v].cap
    /\ vec[last.v].size >= 2

RECURSIVE PowerOfTwoAtLeast(_, _)
PowerOfTwoAtLeast(n, p) == IF p >= n THEN p ELSE PowerOfTwoAtLeast(n, 2 * p)

\* C10: after N >= 1 PushBack calls on a Vector created empty, the elements
\* are the pushed values in order, the size is N, the capacity is the
\* smallest power of two >= N and fewer than 2N elements were relocated.
C10_PushBackGrowth ==
    Len(pushes) >= 1
       => /\ vec[1].size = Len(pushes)
          /\ Elems(1) = [k \in 1..Len(pushes) |-> Live(pushes[k])]
          /\ vec[1].cap = PowerOfTwoAtLeast(Len(pushes), 1)
          /\ relocs < 2 * Len(pushes)

\* Five calls: capacities 1, 2, 4, 8 and 1 + 2 + 4 relocations.
C10_Witness ==
    /\ Len(pushes) = 5
    /\ vec[1].cap = 8
    /\ relocs = 7

----------------------------------------------------------------------------
\* Events of a call

ElementEvents == {"construct", "assign", "destroy"}

\* The kinds of the element events of lg at slot j of block b, in order.
KindsAt(lg, b, j) ==
    LET At(ev) == ev.b = b /\ ev.i = j /\ ev.e \in ElementEvents
        sel == SelectSeq(lg, At)
    IN  [k \in 1..Len(sel) |-> sel[k].e]

\* The events of lg of the kinds in ks, in order.
EventsOf(lg, ks) ==
    LET Of(ev) == ev.e \in ks
    IN  SelectSeq(lg, Of)

\* C11: a completed copy assignment v = w (v, w distinct) with w.size <=
\* v.capacity keeps v's capacity and block, gives v the element sequence and
\* size of w, leaves w as it was, and handles every slot in
\* [0, max(old size, w.size)) exactly once: the slots below min(old size,
\* w.size) are assigned to, the slots [w.size, old size) are destroyed, the
\* slots [old size, w.size) are constructed; nothing else happens.
C11_CopyAssignInPlace ==
    [][(/\ last'.op = "CopyAssign" /\ last'.out = "ok" /\ last'.v # last'.w
        /\ vec[last'.w].size <= vec[last'.v].cap)
          => LET v == last'.v
                 w == last'.w
                 k == vec[v].size
                 n == vec[w].size
             IN  /\ last'.path = "inplace"
                 /\ vec'[v] = [vec[v] EXCEPT !.size = n]
                 /\ ElemsAfter(v) = Elems(w)
                 /\ \A j \in 1..n : ElemsAfter(v)[j].s = "live"
                 /\ vec'[w] = vec[w]
                 /\ BlockOf(vec', heap', w) = BlockOf(vec, heap, w)
                 /\ \A j \in 0..(Max(k, n) - 1) :
                        KindsAt(last'.log, vec[v].buf, j) =
                            <<IF j < Min(k, n) THEN "assign"
                              ELSE IF j < k THEN "destroy" ELSE "construct">>
                 /\ Len(last'.log) = Max(k, n)]_vars

\* A one-element Vector of capacity 2 was assigned a two-element Vector:
\* slot 0 assigned to, slot 1 constructed.
C11_Witness ==
    /\ last.op = "CopyAssign" /\ last.out = "ok" /\ last.path = "inplace"
    /\ last.v # last.w
    /\ vec[last.v].size = 2
    /\ last.log = <<Ev("assign", vec[last.v].buf, 0), Ev("construct", vec[last.v].buf, 1)>>

CtorOps == {"SizedCtor", "CopyCtor"}

\* C12: when a construction of an element throws in Vector(size) or in
\* Vector(const Vector&), no object comes to exist, every element
\* constructed in the new block was destroyed, the block was released after
\* that and not before, and the heap is as it was before the call.
C12_CtorFailureRollsBack ==
    [][(last'.op \in CtorOps /\ last'.out = "throw")
          => LET lg == last'.log
                 nb == lg[1].b
             IN  /\ vec' = vec
                 /\ ~vec'[last'.v].alive
                 /\ heap' = heap
                 /\ ~last'.leak
                 /\ lg[1].e = "alloc"
                 /\ lg[Len(lg)] = Ev("free", nb, 0)
                 /\ Len(EventsOf(lg, {"alloc", "free"})) = 2
                 /\ \A k \in 1..Len(lg) : lg[k].b = nb
                 /\ \A j \in 0..(lg[1].i - 1) :
                        KindsAt(lg, nb, j) \in {<<>>, <<"construct", "destroy">>}]_vars

\* The copy of the second of two elements threw: the first copy was
\* destroyed and the block released.
C12_Witness ==
    /\ last.op = "CopyCtor" /\ last.out = "throw"
    /\ vec[last.w].size = 2
    /\ ~vec[last.v].alive
    /\ Len(last.log) = 4
    /\ last.log[2].e = "construct" /\ last.log[3].e = "destroy"

\* C13: the move assignment v = std::move(w) exchanges the two objects: v
\* has the block, size, capacity and element sequence w had and w has
\* those v had; the heap is untouched: no element is constructed, assigned
\* to or destroyed and nothing is allocated or released.
C13_MoveAssignSwaps ==
    [][last'.op = "MoveAssign"
          => /\ vec'[last'.v] = vec[last'.w]
             /\ vec'[last'.w] = vec[last'.v]
             /\ ElemsAfter(last'.v) = Elems(last'.w)
             /\ ElemsAfter(last'.w) = Elems(last'.v)
             /\ heap' = heap
             /\ last'.log = <<>>]_vars

\* A move assignment between a Vector of two elements and one of one, each
\* with a block of its own.
C13_Witness ==
    /\ last.op = "MoveAssign" /\ last.v # last.w
    /\ vec[last.v].buf # Null /\ vec[last.w].buf # Null
    /\ vec[last.v].size = 2
    /\ vec[last.w].size = 1

\* C14: a completed Vector(n) has size n and capacity n, and each slot of
\* [0, n) was value-constructed exactly once and holds a value-initialised
\* element; Vector() and Vector(0) have size 0, capacity 0 and no block,
\* and allocate nothing.
C14_SizedAndDefault ==
    [][/\ (last'.op = "SizedCtor" /\ last'.out = "ok")
            => LET d == vec'[last'.v]
                   n == last'.i
                   lg == last'.log
               IN  /\ d.alive /\ d.size = n /\ d.cap = n
                   /\ Len(BlockOf(vec', heap', last'.v).slots) = n
                   /\ \A j \in 0..(n - 1) :
                          /\ SlotOf(vec', heap', last'.v, j) = Live(Default)
                          /\ KindsAt(lg, d.buf, j) = <<"construct">>
                   /\ n = 0 => d.buf = Null /\ heap' = heap /\ lg = <<>>
                   /\ n > 0 => lg[1] = Ev("alloc", d.buf, n) /\ Len(lg) = n + 1
       /\ last'.op = "DefaultCtor"
            => /\ vec'[last'.v] = EmptyVector
               /\ heap' = heap
               /\ last'.log = <<>>]_vars

\* Vector(3) completed.
C14_Witness ==
    /\ last.op = "SizedCtor" /\ last.out = "ok"
    /\ last.i = 3
    /\ vec[last.v].size = 3 /\ vec[last.v].cap = 3
    /\ Len(last.log) = 4

\* C15: no call releases a block while a slot of it holds a constructed
\* element (stated for the calls that stay within defined behaviour: the
\* release by operator delete(end()) is the subject of C5).
C15_NoReleaseWhileConstructed == ~halted => ~last.leak

\* C16: a reallocating Reserve or Emplace/Insert/PushBack allocates the new
\* block, constructs in it every element it is to hold (each slot once),
\* only then destroys the elements of the old block, then swaps the blocks
\* and releases the old one; a call that fails destroys no element of the
\* old block and does not replace it.
C16_ReallocOrder ==
    [][(last'.op \in InsertOps \cup {"Reserve"} /\ last'.path = "realloc")
          => LET v == last'.v
                 lg == last'.log
                 old == vec[v].buf
                 k == vec[v].size
                 nb == lg[1].b
                 c == IF last'.op = "Reserve" THEN k ELSE k + 1
             IN  /\ lg[1].e = "alloc" /\ nb # old
                 /\ last'.out = "ok"
                       => /\ \A p \in 2..(c + 1) : lg[p].e = "construct" /\ lg[p].b = nb
                          /\ {lg[p].i : p \in 2..(c + 1)} = 0..(c - 1)
                          /\ \A p \in (c + 2)..(c + k + 1) : lg[p] = Ev("destroy", old, p - c - 2)
                          /\ lg[c + k + 2] = Ev("swap", old, nb)
                          /\ old # Null => lg[c + k + 3] = Ev("free", old, 0)
                          /\ Len(lg) = c + k + 2 + (IF old # Null THEN 1 ELSE 0)
                          /\ vec'[v].buf = nb
                 /\ last'.out = "throw"
                       => /\ \A p \in 1..Len(lg) : lg[p].b = nb /\ lg[p].e # "swap"
                          /\ vec'[v] = vec[v]
                          /\ ElemsAfter(v) = Elems(v)]_vars

\* An insertion into a full Vector of two elements completed: one
\* allocation, three constructions, two destructions, the swap, the release.
C16_Witness ==
    /\ last.op = "Emplace" /\ last.out = "ok" /\ last.path = "realloc"
    /\ vec[last.v].size = 3 /\ vec[last.v].cap = 4
    /\ Len(last.log) = 8
    /\ last.log[7].e = "swap"

\* C17: a completed Emplace/Insert/PushBack on a Vector with capacity >
\* size keeps the capacity, the block and its address and allocates
\* nothing; on a Vector with size = capacity it makes the capacity
\* max(2 * size, 1), in a block of that many slots.
C17_InsertCapacity ==
    [][(last'.op \in InsertOps /\ last'.out = "ok")
          => LET v == last'.v
                 k == vec[v].size
                 c == vec[v].cap
             IN  /\ c > k
                       => /\ vec'[v].cap = c
                          /\ vec'[v].buf = vec[v].buf
                          /\ EventsOf(last'.log, {"alloc", "free", "swap"}) = <<>>
                 /\ c = k
                       => /\ vec'[v].cap = Max(k * 2, 1)
                          /\ last'.log[1] = Ev("alloc", vec'[v].buf, Max(k * 2, 1))
                 /\ c >= k
                 /\ Len(BlockOf(vec', heap', v).slots) = vec'[v].cap]_vars

\* PushBack on a Vector of size 1 and capacity 4 kept the capacity.
C17_Witness ==
    /\ last.op = "PushBack" /\ last.out = "ok" /\ last.path = "inplace"
    /\ vec[last.v].size = 2
    /\ vec[last.v].cap = 4

\* C18: a call Erase(cend()) is stopped by the assertion: it shifts and
\* destroys nothing and leaves the size as it is.
C18_EraseAtEndStopped ==
    [][(last'.op = "Erase" /\ last'.out # "throw" /\ last'.i = vec[last'.v].size)
          => vec' = vec /\ heap' = heap]_vars

\* The RawMemory objects that hold the block b.
Owners(b) == {m \in Mems : mem[m].alive /\ mem[m].buf = b}

\* C19: every allocated region is owned by exactly one RawMemory object
\* until it is released: no sequence of constructions, moves, swaps and
\* destructions leaves a region with two owners or with none.
C19_RegionOwnedOnce ==
    \A b \in Blocks : heap[b].alloc => Cardinality(Owners(b)) = 1

\* C20: PopBack on a Vector of size k >= 1 destroys the element at index
\* k - 1 and nothing else, makes the size k - 1 and keeps the capacity, the
\* block and the elements [0, k - 1); on an empty Vector it changes nothing.
C20_PopBack ==
    [][last'.op = "PopBack"
          => LET v == last'.v
                 k == vec[v].size
             IN  /\ k >= 1
                       => /\ vec'[v] = [vec[v] EXCEPT !.size = k - 1]
                          /\ last'.log = <<Ev("destroy", vec[v].buf, k - 1)>>
                          /\ heap' = SetSlot(heap, vec[v].buf, k - 1, RawSlot)
                          /\ Slot(heap, vec[v].buf, k - 1).s = "live"
                          /\ ElemsAfter(v) = SubSeq(Elems(v), 1, k - 1)
                 /\ k = 0
                       => /\ vec' = vec
                          /\ heap' = heap
                          /\ last'.log = <<>>
                 /\ last'.out = "ok"]_vars

\* PopBack on three elements in a block of four slots.
C20_Witness ==
    /\ last.op = "PopBack" /\ last.path = "pop"
    /\ vec[last.v].size = 2 /\ vec[last.v].cap = 4
    /\ last.log = <<Ev("destroy", vec[last.v].buf, 2)>>

====
